---- MODULE Spec2Model ----
(***************************************************************************)
(* Realtime dual-stream conversation synchronizer of the useRealtimeAgent  *)
(* hook (renderer/src/hooks/useRealtimeAgent.ts, first half of             *)
(* src/unnamed/part_006) together with the data-channel event router       *)
(* attachRealtimeDataChannelHandlers (renderer/src/realtime/events.ts,     *)
(* second half of src/unnamed/part_004).                                   *)
(*                                                                         *)
(* One action is one run-to-completion handler of the single event loop:   *)
(* a session control call, the continuation of an await, the data          *)
(* channel's open event, or the data channel's message listener.           *)
(*                                                                         *)
(*                                                                         *)
(* The error state is not a variable, since nothing in the hook reads it: *)
(* a setError call is observed in last.calls.                              *)
(***************************************************************************)
EXTENDS Integers, Sequences, FiniteSets, TLC

VARIABLES
    \* ---- React state and refs of the hook (part_006 58-73)
    isSessionStarted,      \* useState(false)
    isSessionActive,       \* useState(false)
    messages,              \* useState<RealtimeMessage[]>([]), newest first
    connRef,               \* "null" or "conn": connRef.current
    dcCleanupRef,          \* TRUE iff dcCleanupRef.current holds a cleanup,
                           \* i.e. the open/message listeners are attached
    currentMessageIdRef,   \* Null or the local id of the open turn
    completionStateRef,    \* [responseDone, transcriptionDone]
    \* ---- track control of the hook (part_006 60, 65-69)
    isListening,           \* useState(false)
    audioStreamRef,        \* Null or the capture stream, named by its track
    tracksRef,             \* the senders held: indexes into senders
    placeholderTrackRef,   \* Null or the silent track
    placeholderAudioContextRef,  \* Null or the silent track's AudioContext
    \* ---- media objects of the browser
    tracks,                \* every MediaStreamTrack created so far
    senders,               \* track attached to each RTCRtpSender of the
                           \* most recently created peer connection
    recPc,                 \* where the startRecording invocation is suspended
    \* ---- environment of the hook
    startPc,               \* where the startSession invocation is suspended
    overlapPc,             \* where a second startSession invocation, made
                           \* while the first is suspended, is suspended
    otherConn,             \* the connection that is not the one connRef or
                           \* the first invocation refers to: being created
                           \* by the second invocation, or open and no
                           \* longer referred to
    stopInFlight,          \* TRUE iff the last stopSession ran while a
                           \* startSession invocation was suspended and
                           \* startSession has not been called since
    dcState,               \* readyState of the most recently created channel
    dcSent,                \* events transmitted on that channel
    uuidCount,             \* crypto.randomUUID() calls made for turn ids
    deltasRouted,          \* delta events that reached a delta handler
    closeArg,              \* the connection object a caller other than the
                           \* hook hands to closeRealtimeWebRtcConnection
    \* ---- observation of the last handler and of the current turn
    last,                  \* what the last handler did
    turn                   \* history of the turn opened last

hookVars == <<isSessionStarted, isSessionActive, connRef, dcCleanupRef>>
syncVars == <<currentMessageIdRef, completionStateRef, messages, uuidCount>>
envVars  == <<startPc, dcState, dcSent, deltasRouted>>
trackVars == <<isListening, audioStreamRef, tracksRef, placeholderTrackRef,
               placeholderAudioContextRef>>
mediaVars == <<tracks, senders, recPc>>
vars     == <<hookVars, syncVars, envVars, trackVars, mediaVars, closeArg,
             overlapPc, otherConn, stopInFlight, last, turn>>

-----------------------------------------------------------------------------
(* Bounds *)

\* Delta events routed to a delta handler in one run.
MaxDeltas == 2

\* MediaStreamTracks created in one run (silent placeholders and microphone
\* tracks together).
MaxTracks == 3

\* Events a caller other than onOpen transmits on one channel.
MaxSent == 2

-----------------------------------------------------------------------------
(* Values *)

\* null / undefined / empty id: every falsy id of the code.
Null == 0

\* Item ids the remote service assigns to response outputs are the negative
\* numbers (local ids, drawn by crypto.randomUUID, are the positive ones).
\* They are unique: the next one is the first of -1, -2, ... that no
\* timeline entry carries.
FreshRemoteId(msgs) ==
    Null - 1 - Cardinality({i \in 1..Len(msgs) : msgs[i].id < Null})

\* Texts of the delta events, in delivery order: the k-th delta that reaches
\* a delta handler carries the k-th letter, so that the order in which
\* deltas were applied can be read off a text.
DeltaLetters == <<"a", "b", "c", "d", "e", "f", "g", "h">>

\* The texts the next delta event may carry after k routed deltas; ""
\* stands for an empty or missing delta.
DeltaTexts(k) == {"", DeltaLetters[k + 1]}

\* Transcripts a transcription-completed event carries ("" empty or missing).
UserTranscripts == {"", "T"}

\* Final transcripts of a response.done message output ("" empty or missing).
BotTranscripts == {"", "B"}

BotDelta == "response.audio_transcript.delta"
UserDelta == "conversation.item.input_audio_transcription.delta"
UserCompleted == "conversation.item.input_audio_transcription.completed"
ResponseDone == "response.done"
OtherType == "session.updated"

\* completionStateRef's initial and reset value.
NoneDone == [responseDone |-> FALSE, transcriptionDone |-> FALSE]

-----------------------------------------------------------------------------
(* Inbound payloads: e.data of a MessageEvent of the data channel.          *)
(*   json    "invalid": JSON.parse throws; "null": parses to null;          *)
(*           "object": parses to an object                                  *)
(*   type    the event's type discriminator                                 *)
(*   text    delta / transcript / output content[0].transcript              *)
(*   out     type of response.output[0]: "none", "function_call", "message" *)
(*   outId   id of response.output[0], Null when absent                     *)
(*   raises  which collaborator callback raises while this event is         *)
(*           dispatched: "none", "onMessage" (the generic observer) or      *)
(*           "callback" (onUserTranscript / onBotTranscript /               *)
(*           onTranscriptComplete of the hook's options)                    *)

Payload(json, type, text, out, outId, raises) ==
    [json |-> json, type |-> type, text |-> text, out |-> out,
     outId |-> outId, raises |-> raises]

NoEvent == Payload("none", "", "", "none", Null, "none")

\* The payloads that can arrive when the timeline is msgs and k deltas have
\* been routed.
Payloads(msgs, k) ==
    {Payload("invalid", "", "", "none", Null, "none"),
     Payload("null", "", "", "none", Null, "none")}
    \cup {Payload("object", OtherType, "", "none", Null, r) : r \in {"none", "onMessage"}}
    \cup {Payload("object", t, "", "none", Null, "none") : t \in {BotDelta, UserDelta}}
    \cup {Payload("object", t, d, "none", Null, r) :
            t \in {BotDelta, UserDelta}, d \in DeltaTexts(k) \ {""},
            r \in {"none", "callback"}}
    \cup {Payload("object", UserCompleted, "", "none", Null, "none")}
    \cup {Payload("object", UserCompleted, u, "none", Null, r) :
            u \in UserTranscripts \ {""}, r \in {"none", "callback"}}
    \cup {Payload("object", ResponseDone, "", o, Null, "none") :
            o \in {"none", "function_call"}}
    \cup {Payload("object", ResponseDone, "", "message", Null, "none")}
    \cup {Payload("object", ResponseDone, b, "message", i, r) :
            b \in BotTranscripts \ {""}, i \in {Null, FreshRemoteId(msgs)},
            r \in {"none", "callback"}}

\* One payload of each kind: a malformed one, an unrecognized event, a
\* transcription-completed event, a response.done event with a message
\* output and, as long as no delta has been routed (k = 0), a delta.
OnePayloadPerKind(k) ==
    {Payload("invalid", "", "", "none", Null, "none"),
     Payload("object", OtherType, "", "none", Null, "none"),
     Payload("object", UserCompleted, "T", "none", Null, "none"),
     Payload("object", ResponseDone, "B", "message", Null, "none")}
    \cup (IF k = 0
          THEN {Payload("object", BotDelta, DeltaLetters[1], "none", Null, "none")}
          ELSE {})

-----------------------------------------------------------------------------
(* Timeline entries: RealtimeMessage {id, bot?, user?}.  An absent optional *)
(* field is a key that is not in the record's domain.                       *)

\* {...m, [k]: v}
With(m, k, v) == [f \in DOMAIN m \cup {k} |-> IF f = k THEN v ELSE m[f]]

\* (m[k] || '')
OrEmpty(m, k) == IF k \in DOMAIN m THEN m[k] ELSE ""

\* prev.findIndex((msg) => msg.id === messageId); 0 stands for -1
findIndex(prev, messageId) ==
    IF \E i \in 1..Len(prev) : prev[i].id = messageId
    THEN CHOOSE i \in 1..Len(prev) :
            /\ prev[i].id = messageId
            /\ \A j \in 1..(i - 1) : prev[j].id # messageId
    ELSE 0

\* Mutant: a delta replaces the entry's text instead of extending it.
DeltaUpdater_Overwrite(prev, messageId, field, delta) ==
    LET deltaIndex == findIndex(prev, messageId)
    IN  IF deltaIndex # 0
        THEN [prev EXCEPT ![deltaIndex] = With(prev[deltaIndex], field, delta)]
        ELSE <<With([id |-> messageId], field, delta)>> \o prev

\* Mutant: a new entry goes to the end of the timeline.
DeltaUpdater_AtEnd(prev, messageId, field, delta) ==
    LET deltaIndex == findIndex(prev, messageId)
    IN  IF deltaIndex # 0
        THEN [prev EXCEPT ![deltaIndex] =
                With(prev[deltaIndex], field, OrEmpty(prev[deltaIndex], field) \o delta)]
        ELSE prev \o <<With([id |-> messageId], field, delta)>>

\* Mutant: a delta whose id matches no entry extends the newest entry.
DeltaUpdater_Newest(prev, messageId, field, delta) ==
    LET deltaIndex == IF findIndex(prev, messageId) = 0 /\ Len(prev) > 0
                      THEN 1 ELSE findIndex(prev, messageId)
    IN  IF deltaIndex # 0
        THEN [prev EXCEPT ![deltaIndex] =
                With(prev[deltaIndex], field, OrEmpty(prev[deltaIndex], field) \o delta)]
        ELSE <<With([id |-> messageId], field, delta)>> \o prev

\* The updater of a delta handler: append to the entry's field, or insert a
\* new entry at the head.
DeltaUpdater(prev, messageId, field, delta) ==
    LET deltaIndex == findIndex(prev, messageId)
    IN  IF deltaIndex # 0
        THEN [prev EXCEPT ![deltaIndex] =
                With(prev[deltaIndex], field, OrEmpty(prev[deltaIndex], field) \o delta)]
        ELSE <<With([id |-> messageId], field, delta)>> \o prev

\* The updater of onUserTranscriptCompleted.
CompletedUpdater(prev, messageId, text) ==
    LET idx == findIndex(prev, messageId)
    IN  IF idx = 0 THEN prev
        ELSE [prev EXCEPT ![idx] = With(prev[idx], "user", text)]

\* The updater of onResponseDone: id: output.id || messageId, bot: transcript.
DoneUpdater(prev, messageId, outId, finalTranscript) ==
    LET idx == findIndex(prev, messageId)
    IN  IF idx = 0 THEN prev
        ELSE [prev EXCEPT ![idx] =
                With(With(prev[idx], "id", IF outId # Null THEN outId ELSE messageId),
                     "bot", finalTranscript)]

-----------------------------------------------------------------------------
(* The synchronizer.  Its state is the record                               *)
(*   [id, cs, msgs, uuid] = currentMessageIdRef, completionStateRef,        *)
(*                          messages, uuidCount                             *)
(* and a handler returns [s, threw, gate]: the state it leaves, whether it  *)
(* raised, and the completion flags as they stood right after the handler   *)
(* mutated one of them (before the joint check), NoGate when it mutated     *)
(* none.                                                                    *)

NoGate == [mutated |-> FALSE, responseDone |-> FALSE, transcriptionDone |-> FALSE]

GateOf(cs) ==
    [mutated |-> TRUE, responseDone |-> cs.responseDone,
     transcriptionDone |-> cs.transcriptionDone]

Ret(s, threw, gate) == [s |-> s, threw |-> threw, gate |-> gate]

\* Mutant: the joint check does nothing.
resetMessageCycle_Noop(s) == s

\* Mutant: the joint check clears the turn id and forgets to reset the flags.
resetMessageCycle_KeepsFlags(s) ==
    IF s.cs.responseDone /\ s.cs.transcriptionDone
    THEN [s EXCEPT !.id = Null]
    ELSE s

resetMessageCycle(s) ==
    IF s.cs.responseDone /\ s.cs.transcriptionDone
    THEN [s EXCEPT !.id = Null, !.cs = NoneDone]
    ELSE s

\* Mutant: every turn gets the same id.
EnsureMessageId_Reuses(s) ==
    IF s.id = Null
    THEN [s EXCEPT !.id = Null + 1, !.uuid = s.uuid + 1]
    ELSE s

\* Mutant: every delta allocates a turn id, whether or not a turn is open.
EnsureMessageId_Always(s) == [s EXCEPT !.id = s.uuid + 1, !.uuid = s.uuid + 1]

\* if (!currentMessageIdRef.current) currentMessageIdRef.current = crypto.randomUUID()
EnsureMessageId(s) ==
    IF s.id = Null
    THEN [s EXCEPT !.id = s.uuid + 1, !.uuid = s.uuid + 1]
    ELSE s

onTranscriptDelta(s, field, delta, cbRaises) ==
    LET s1 == EnsureMessageId(s)
    IN  IF cbRaises THEN Ret(s1, TRUE, NoGate)
        ELSE Ret([s1 EXCEPT !.msgs = DeltaUpdater(s1.msgs, s1.id, field, delta)],
                 FALSE, NoGate)

onBotTranscriptDelta(s, delta, cbRaises) == onTranscriptDelta(s, "bot", delta, cbRaises)

onUserTranscriptDelta(s, delta, cbRaises) == onTranscriptDelta(s, "user", delta, cbRaises)

onUserTranscriptCompleted(s, text, cbRaises) ==
    IF s.id = Null THEN Ret(s, FALSE, NoGate)
    ELSE IF cbRaises THEN Ret(s, TRUE, NoGate)
    ELSE LET s1 == [s EXCEPT !.msgs = CompletedUpdater(s.msgs, s.id, text)]
             s2 == [s1 EXCEPT !.cs.transcriptionDone = TRUE]
         IN  Ret(IF s2.cs.responseDone THEN resetMessageCycle(s2) ELSE s2,
                 FALSE, GateOf(s2.cs))

onResponseDone(s, p, cbRaises) ==
    LET applies == p.out = "message" /\ p.text # "" /\ s.id # Null
    IN  IF applies /\ cbRaises THEN Ret(s, TRUE, NoGate)
        ELSE LET s1 == IF applies
                       THEN [s EXCEPT !.msgs = DoneUpdater(s.msgs, s.id, p.outId, p.text)]
                       ELSE s
                 s2 == [s1 EXCEPT !.cs.responseDone = TRUE]
             IN  Ret(IF s2.cs.transcriptionDone THEN resetMessageCycle(s2) ELSE s2,
                     FALSE, GateOf(s2.cs))

-----------------------------------------------------------------------------
(* The router: handleMessage of attachRealtimeDataChannelHandlers.          *)
(* The body of its try block returns [s, calls, raised, gate]: calls is the *)
(* sequence of handler slots invoked, raised is "none", "parse" (JSON.parse *)
(* threw) or "dispatch" (anything after it threw).                          *)

Body(s, calls, raised, gate) ==
    [s |-> s, calls |-> calls, raised |-> raised, gate |-> gate]

\* A router that dispatches without forwarding to the generic observer.
Routed_SkipsObserver(name, r) ==
    Body(r.s, <<name>>, IF r.threw THEN "dispatch" ELSE "none", r.gate)

\* handlers.onMessage?.(event), then the type-specific handler name, whose
\* result is r.
Routed(name, r) ==
    Body(r.s, <<"onMessage", name>>, IF r.threw THEN "dispatch" ELSE "none", r.gate)

\* Mutant: a router that does not look at the text before dispatching.
TryBody_RoutesEmpty(p, s) ==
    LET cb == p.raises = "callback"
    IN  IF p.json = "invalid" THEN Body(s, <<>>, "parse", NoGate)
        ELSE IF p.raises = "onMessage" THEN Body(s, <<"onMessage">>, "dispatch", NoGate)
        ELSE IF p.json = "null" THEN Body(s, <<"onMessage">>, "dispatch", NoGate)
        ELSE IF p.type = BotDelta
             THEN Routed("onBotTranscriptDelta", onBotTranscriptDelta(s, p.text, cb))
        ELSE IF p.type = UserDelta
             THEN Routed("onUserTranscriptDelta", onUserTranscriptDelta(s, p.text, cb))
        ELSE IF p.type = UserCompleted
             THEN Routed("onUserTranscriptCompleted", onUserTranscriptCompleted(s, p.text, cb))
        ELSE IF p.type = ResponseDone
             THEN Routed("onResponseDone", onResponseDone(s, p, cb))
        ELSE Body(s, <<"onMessage">>, "none", NoGate)

TryBody(p, s) ==
    LET cb == p.raises = "callback"
    IN  IF p.json = "invalid" THEN Body(s, <<>>, "parse", NoGate)
        ELSE IF p.raises = "onMessage" THEN Body(s, <<"onMessage">>, "dispatch", NoGate)
        \* event.type of null is a TypeError
        ELSE IF p.json = "null" THEN Body(s, <<"onMessage">>, "dispatch", NoGate)
        ELSE IF p.type = BotDelta /\ p.text # ""
             THEN Routed("onBotTranscriptDelta", onBotTranscriptDelta(s, p.text, cb))
        ELSE IF p.type = UserDelta /\ p.text # ""
             THEN Routed("onUserTranscriptDelta", onUserTranscriptDelta(s, p.text, cb))
        ELSE IF p.type = UserCompleted /\ p.text # ""
             THEN Routed("onUserTranscriptCompleted", onUserTranscriptCompleted(s, p.text, cb))
        ELSE IF p.type = ResponseDone
             THEN Routed("onResponseDone", onResponseDone(s, p, cb))
        ELSE Body(s, <<"onMessage">>, "none", NoGate)

\* Mutant: the catch block swallows the error without reporting it.
Catch_Silent(body) ==
    [s |-> body.s, calls |-> body.calls, raised |-> body.raised,
     gate |-> body.gate, escaped |-> FALSE]

\* Mutant: only JSON.parse is guarded; an error raised while dispatching
\* leaves the listener.
Catch_ParseOnly(body) ==
    [s |-> body.s,
     calls |-> IF body.raised = "parse" THEN Append(body.calls, "onParseError")
               ELSE body.calls,
     raised |-> body.raised, gate |-> body.gate,
     escaped |-> body.raised = "dispatch"]

\* try { ... } catch (err) { handlers.onParseError?.(err) }
\* The hook's onParseError only logs.  The result adds escaped: whether an
\* error left the listener.
Catch(body) ==
    [s |-> body.s,
     calls |-> IF body.raised # "none" THEN Append(body.calls, "onParseError")
               ELSE body.calls,
     raised |-> body.raised, gate |-> body.gate, escaped |-> FALSE]

handleMessage(p, s) == Catch(TryBody(p, s))

-----------------------------------------------------------------------------
(* Observation *)

\* What the last handler did: the action, how the payload parsed ("none"
\* for an action that is not the message listener), its type, the text it
\* carried to a type-specific handler, the handler slots invoked, whether
\* and where an error was raised, whether it left the listener, and the
\* completion flags as the joint check met them.
Last(op, p, r) ==
    [op |-> op, json |-> p.json, type |-> p.type, outId |-> p.outId,
     event |-> <<>>, sent |-> <<>>, raw |-> p.text,
     text |-> IF Len(r.calls) >= 2 /\ r.calls[2] # "onParseError" THEN p.text ELSE "",
     calls |-> r.calls, raised |-> r.raised, escaped |-> r.escaped, gate |-> r.gate,
     again |-> FALSE]

Quiet == [calls |-> <<>>, raised |-> "none", escaped |-> FALSE, gate |-> NoGate]

Control(op) == Last(op, NoEvent, Quiet)

\* A control step that made the collaborator or browser calls named.
Called(op, calls) == [Control(op) EXCEPT !.calls = calls]

\* A catch block that swallows the error without reporting it.
Caught_Unreported(op) == [Control(op) EXCEPT !.raised = "caught"]

\* A control step that ended in the operation's own catch block, which
\* reports the error: setError(error.message), onError?.(error).
Caught(op) ==
    [Control(op) EXCEPT !.calls = <<"setError", "onError">>, !.raised = "caught"]

\* History of the turn opened last.
\*   phase   "none": no turn opened in this session; "open"; "gate": closed
\*           by the joint check; "cleared": its id was cleared otherwise
\*   prev    phase of the turn before it when its id was allocated
\*   base    Len(messages) when its id was allocated
\*   U       transcript of the last transcription-completed event handled
\*           while its id was current ("" when there was none)
\*   sawDone a response.done event was handled while its id was current
\*   B       final transcript of the last such response.done whose output
\*           was a message
\*   ud, bd  concatenation of the user / bot deltas applied while it was open
\*   late    a delta was applied after one of its completion events
NoTurn == [phase |-> "none", prev |-> "none", base |-> 0, U |-> "",
           sawDone |-> FALSE, B |-> "", ud |-> "", bd |-> "", late |-> FALSE]

TurnAfter(t, s, p, r) ==
    LET handled(name) == r.raised = "none" /\ Len(r.calls) = 2 /\ r.calls[2] = name
        opened == r.s.id # Null /\ r.s.id # s.id
        t0 == IF opened
              THEN [NoTurn EXCEPT !.phase = "open", !.prev = t.phase,
                                  !.base = Len(s.msgs)]
              ELSE t
        completing == t0.U # "" \/ t0.sawDone
        t1 == IF handled("onUserTranscriptDelta")
                   THEN [t0 EXCEPT !.ud = @ \o p.text, !.late = @ \/ completing]
              ELSE IF handled("onBotTranscriptDelta")
                   THEN [t0 EXCEPT !.bd = @ \o p.text, !.late = @ \/ completing]
              ELSE IF handled("onUserTranscriptCompleted") /\ s.id # Null
                   THEN [t0 EXCEPT !.U = p.text]
              ELSE IF handled("onResponseDone") /\ s.id # Null
                   THEN [t0 EXCEPT !.sawDone = TRUE,
                                   !.B = IF p.out = "message" /\ p.text # ""
                                         THEN p.text ELSE @]
              ELSE t0
    IN  IF s.id # Null /\ r.s.id = Null
        THEN [t1 EXCEPT !.phase = IF r.gate.responseDone /\ r.gate.transcriptionDone
                                  THEN "gate" ELSE "cleared"]
        ELSE t1

-----------------------------------------------------------------------------
(* Media objects.  tracks maps the name of each MediaStreamTrack that     *)
(* still matters to its state; a capture stream and an AudioContext are    *)
(* named by the one track they hold.  A track that has ended, whose        *)
(* AudioContext is not running and that nothing references any more is     *)
(* garbage: it leaves tracks, and its name may be given to a later track.  *)

\* The name of the next track created: the first one not in use.
Fresh(ts) ==
    CHOOSE t \in 1..MaxTracks :
        t \notin DOMAIN ts /\ \A u \in 1..(t - 1) : u \in DOMAIN ts

\* Another track can be created within the bound.
CanCreate(ts) == Cardinality(DOMAIN ts) < MaxTracks

\* ts without the tracks that are garbage when refs are the names held by
\* the hook's refs and by the senders.
Collect(ts, refs) ==
    LET keep == {t \in DOMAIN ts : \/ ts[t].readyState = "live"
                                   \/ ts[t].ctx = "running"
                                   \/ t \in refs}
    IN  [t \in keep |-> ts[t]]

\* The tracks attached to the senders snd.
Attached(snd) == {snd[i] : i \in 1..Len(snd)}

SilentTrack == [kind |-> "silent", readyState |-> "live", ctx |-> "running"]

MicTrack == [kind |-> "mic", readyState |-> "live", ctx |-> "none"]

\* createSilentAudioTrack: a new AudioContext and the track of its
\* destination stream.
createSilentAudioTrack(ts) == (Fresh(ts) :> SilentTrack) @@ ts

\* navigator.mediaDevices.getUserMedia({audio: true}) resolving: a new
\* stream with one live audio track.
getUserMedia(ts) == (Fresh(ts) :> MicTrack) @@ ts

\* A track.stop() that leaves the track running.
stop_Noop(ts, t) == ts

\* track.stop()
stop(ts, t) == [ts EXCEPT ![t].readyState = "ended"]

\* audioContext.close()
close(ts, t) == [ts EXCEPT ![t].ctx = "closed"]

\* A replaceTrack that leaves every sender's track as it is.
replaceTrack_KeepsTrack(snd, held, t, pcClosed) == snd

\* tracksRef.current.forEach((sender) => sender.replaceTrack(t)).  A sender
\* of a closed peer connection rejects the replacement and keeps its track.
replaceTrack(snd, held, t, pcClosed) ==
    [i \in 1..Len(snd) |->
        IF ~pcClosed /\ (\E j \in 1..Len(held) : held[j] = i) THEN t ELSE snd[i]]

\* A RealtimeWebRtcConnection {pc, dc, audioEl}, or null.
\*   dc, pc   "absent" (the member is missing from a partially built
\*            object), "connecting", "open" or "closed"
\*   audioEl  "absent", "attached" (srcObject is a stream) or "detached"
\*   raising  the members among dc, pc whose close() raises
Conn(dc, pc, audioEl, raising) ==
    [isNull |-> FALSE, dc |-> dc, pc |-> pc, audioEl |-> audioEl,
     raising |-> raising]

\* The other connection: none; one the second invocation is creating, with
\* the placeholder track its sender holds; or an open one that connRef has
\* stopped referring to.
NoConn == [state |-> "none", track |-> Null]

Orphan == [state |-> "orphan", track |-> Null]

NullConn == [isNull |-> TRUE, dc |-> "absent", pc |-> "absent",
             audioEl |-> "absent", raising |-> {}]

\* The connection connRef.current holds when its channel's readyState is
\* dc; the peer connection is closed when its channel is.
HookConn(ref, dc) ==
    IF ref = "null" THEN NullConn
    ELSE Conn(dc, IF dc = "closed" THEN "closed" ELSE "open", "attached", {})

\* conn[member].close(): a missing member is a TypeError and changes
\* nothing; a close() that raises has taken effect or not (took).
Closed(conn, member, took) ==
    IF conn[member] = "absent" THEN "absent"
    ELSE IF member \in conn.raising /\ member \notin took THEN conn[member]
    ELSE "closed"

\* conn.audioEl.srcObject = null
Detached(conn) == IF conn.audioEl = "absent" THEN "absent" ELSE "detached"

\* closeRealtimeWebRtcConnection without its null check and its try blocks:
\* conn.dc of a null conn raises a TypeError, and so does a missing member
\* or a close() that raises.
closeRealtimeWebRtcConnection_Unguarded(conn, took) ==
    [conn |-> IF conn.isNull THEN conn
              ELSE [conn EXCEPT !.dc = Closed(conn, "dc", took),
                                !.pc = Closed(conn, "pc", took),
                                !.audioEl = Detached(conn)],
     threw |-> \/ conn.isNull
               \/ conn.raising # {}
               \/ "absent" \in {conn.dc, conn.pc, conn.audioEl}]

\* closeRealtimeWebRtcConnection with one try block around its three
\* statements: the first that raises ends the teardown.
closeRealtimeWebRtcConnection_OneTry(conn, took) ==
    LET dcRaised == conn.dc = "absent" \/ "dc" \in conn.raising
        pcRaised == dcRaised \/ conn.pc = "absent" \/ "pc" \in conn.raising
    IN  [conn |-> IF conn.isNull THEN conn
                  ELSE [conn EXCEPT
                          !.dc = Closed(conn, "dc", took),
                          !.pc = IF dcRaised THEN @ ELSE Closed(conn, "pc", took),
                          !.audioEl = IF pcRaised THEN @ ELSE Detached(conn)],
         threw |-> FALSE]

\* closeRealtimeWebRtcConnection(conn): the connection afterwards, and
\* whether the call raised.  took names the raising close() calls that took
\* effect all the same.
closeRealtimeWebRtcConnection(conn, took) ==
    [conn |-> IF conn.isNull THEN conn
              ELSE [conn EXCEPT !.dc = Closed(conn, "dc", took),
                                !.pc = Closed(conn, "pc", took),
                                !.audioEl = Detached(conn)],
     threw |-> FALSE]

-----------------------------------------------------------------------------
(* Outbound events.  A RealtimeEvent is the sequence of its own properties *)
(* in insertion order, each a <<key, value>> pair; a frame, the text       *)
(* JSON.stringify returns, is the sequence of its members.                  *)

\* The value undefined.
Undefined == "<undefined>"

\* A value crypto.randomUUID() returns for an event id.  Event ids are never
\* compared with one another, so one value stands for every draw.
EventUuid == "<uuid>"

\* !v of a string or undefined
Falsy(v) == v \in {Undefined, ""}

\* event[key]
Get(event, key) ==
    IF \E i \in 1..Len(event) : event[i][1] = key
    THEN event[CHOOSE i \in 1..Len(event) : event[i][1] = key][2]
    ELSE Undefined

\* event[key] = value: an own property keeps its place, a new one goes last.
Set(event, key, value) ==
    IF \E i \in 1..Len(event) : event[i][1] = key
    THEN [i \in 1..Len(event) |->
            IF event[i][1] = key THEN <<key, value>> ELSE event[i]]
    ELSE Append(event, <<key, value>>)

\* JSON.stringify(event): members whose value is undefined are left out.
Stringify(event) == SelectSeq(event, LAMBDA m : m[2] # Undefined)

\* createSessionUpdate(): no event_id.
createSessionUpdate == <<<<"type", "session.update">>, <<"session", "config">>>>

\* Events a caller hands to sendClientEvent: without an event_id, with one,
\* with an empty one, and with event_id and another member undefined.
ClientEvents ==
    {createSessionUpdate,
     <<<<"event_id", "evt_1">>, <<"type", "response.create">>>>,
     <<<<"type", "response.create">>, <<"event_id", "">>>>,
     <<<<"type", "response.cancel">>, <<"event_id", Undefined>>,
       <<"response_id", Undefined>>>>}

\* Mutant: the readyState of the channel is not looked at.
sendClientEvent_Unchecked(ref, dc, event) ==
    IF ref # "null"
    THEN [sent |-> <<Stringify(Set(event, "event_id",
                        IF Falsy(Get(event, "event_id")) THEN EventUuid
                        ELSE Get(event, "event_id")))>>,
          calls |-> <<"dc.send">>]
    ELSE [sent |-> <<>>, calls |-> <<"console.error">>]

\* Mutant: the event is sent as the caller built it.
sendClientEvent_AsIs(ref, dc, event) ==
    IF ref # "null" /\ dc = "open"
    THEN [sent |-> <<Stringify(event)>>, calls |-> <<"dc.send">>]
    ELSE [sent |-> <<>>, calls |-> <<"console.error">>]

\* sendClientEvent(event) when connRef.current is ref and its channel's
\* readyState is dc: the frames handed to dc.send and the calls made.
sendClientEvent(ref, dc, event) ==
    IF ref # "null" /\ dc = "open"
    THEN [sent |-> <<Stringify(Set(event, "event_id",
                        IF Falsy(Get(event, "event_id")) THEN EventUuid
                        ELSE Get(event, "event_id")))>>,
          calls |-> <<"dc.send">>]
    ELSE [sent |-> <<>>, calls |-> <<"console.error">>]

-----------------------------------------------------------------------------
(* Initial state: the hook right after its first render. *)

HookInit ==
    /\ isSessionStarted = FALSE
    /\ isSessionActive = FALSE
    /\ messages = <<>>
    /\ connRef = "null"
    /\ dcCleanupRef = FALSE
    /\ currentMessageIdRef = Null
    /\ completionStateRef = NoneDone
    /\ isListening = FALSE
    /\ audioStreamRef = Null
    /\ tracksRef = <<>>
    /\ placeholderTrackRef = Null
    /\ placeholderAudioContextRef = Null
    /\ tracks = <<>>
    /\ senders = <<>>
    /\ recPc = "idle"
    /\ startPc = "idle"
    /\ overlapPc = "idle"
    /\ otherConn = NoConn
    /\ stopInFlight = FALSE
    /\ dcState = "none"
    /\ dcSent = 0
    /\ uuidCount = 0
    /\ deltasRouted = 0
    /\ last = Control("init")
    /\ turn = NoTurn

Init == HookInit /\ closeArg = NullConn

\* The connection objects closeRealtimeWebRtcConnection is called with: null,
\* and every combination of member states in which only a member that is
\* there raises on close.
Conns ==
    {NullConn} \cup
    {c \in [isNull : {FALSE}, dc : {"absent", "connecting", "open", "closed"},
            pc : {"absent", "open", "closed"},
            audioEl : {"absent", "attached", "detached"},
            raising : SUBSET {"dc", "pc"}] :
        \A m \in c.raising : c[m] # "absent"}

CloseInit == HookInit /\ closeArg \in Conns

-----------------------------------------------------------------------------
(* Session control *)

\* A startSession that forgets its guard.
AlreadyStarted_Never == FALSE

\* if (isSessionStarted) return
AlreadyStarted == isSessionStarted

\* startSession up to its first await (getRealtimeClientSecret); when the
\* session is already started it returns at once.
StartSession ==
    /\ UNCHANGED <<closeArg, overlapPc, otherConn>>
    /\ startPc = "idle"
    /\ overlapPc = "idle"
    /\ IF AlreadyStarted
       THEN /\ last' = Control("startSession")
            /\ UNCHANGED <<startPc, stopInFlight>>
       ELSE /\ startPc' = "token"
            /\ stopInFlight' = FALSE
            /\ last' = Called("startSession", <<"getRealtimeClientSecret">>)
    /\ UNCHANGED <<hookVars, syncVars, dcState, dcSent, deltasRouted,
                   trackVars, mediaVars, turn>>

\* The catch block of startSession: setError, onError, setIsSessionStarted(false).
StartFailed(op) ==
    /\ UNCHANGED <<closeArg, overlapPc, otherConn, stopInFlight>>
    /\ startPc' = "idle"
    /\ isSessionStarted' = FALSE
    /\ last' = Caught(op)
    /\ UNCHANGED <<isSessionActive, connRef, dcCleanupRef, syncVars, deltasRouted,
                   trackVars, mediaVars, turn>>

\* startSession called again while the first invocation is suspended: the
\* guard reads the same isSessionStarted, so this one too goes on to ask for
\* a token.
StartSessionAgain ==
    /\ startPc # "idle"
    /\ overlapPc = "idle"
    /\ IF AlreadyStarted
       THEN /\ last' = Control("startSession")
            /\ UNCHANGED <<overlapPc, stopInFlight>>
       ELSE /\ overlapPc' = "token"
            /\ stopInFlight' = FALSE
            /\ last' = Called("startSession", <<"getRealtimeClientSecret">>)
    /\ UNCHANGED <<hookVars, syncVars, envVars, trackVars, mediaVars, closeArg,
                   otherConn, turn>>

\* getRealtimeClientSecret of the second invocation rejects, or resolves
\* with an empty clientSecret: the catch block of that invocation runs.
OverlapTokenFailed ==
    /\ overlapPc = "token"
    /\ overlapPc' = "idle"
    /\ isSessionStarted' = FALSE
    /\ last' = Caught("tokenFailed")
    /\ UNCHANGED <<isSessionActive, connRef, dcCleanupRef, syncVars, envVars,
                   trackVars, mediaVars, closeArg, otherConn, stopInFlight, turn>>

\* getRealtimeClientSecret rejects, or resolves with an empty clientSecret.
TokenFailed ==
    /\ startPc = "token"
    /\ StartFailed("tokenFailed")
    /\ UNCHANGED <<dcState, dcSent>>

\* The token arrives: the placeholder track is built and
\* createRealtimeWebRtcConnection runs up to its first await, which creates
\* the peer connection, one sender for the placeholder track, and the data
\* channel.
TokenResolved ==
    /\ UNCHANGED <<closeArg, overlapPc, otherConn, stopInFlight>>
    /\ startPc = "token"
    /\ CanCreate(tracks)
    /\ startPc' = "handshake"
    /\ placeholderTrackRef' = Fresh(tracks)
    /\ placeholderAudioContextRef' = Fresh(tracks)
    /\ senders' = <<Fresh(tracks)>>
    /\ tracks' = Collect(createSilentAudioTrack(tracks),
                         {audioStreamRef, Fresh(tracks)})
    /\ dcState' = "connecting"
    /\ dcSent' = 0
    /\ last' = Control("tokenResolved")
    /\ UNCHANGED <<hookVars, syncVars, deltasRouted, isListening, audioStreamRef,
                   tracksRef, recPc, turn>>

\* The SDP exchange is rejected: createRealtimeWebRtcConnection throws.
HandshakeFailed ==
    /\ startPc = "handshake"
    /\ StartFailed("handshakeFailed")
    /\ UNCHANGED <<dcState, dcSent>>

\* The handshake completes: connRef, tracksRef and the listeners are set.
HandshakeResolved ==
    /\ UNCHANGED <<closeArg, overlapPc, stopInFlight>>
    /\ startPc = "handshake"
    /\ startPc' = "idle"
    /\ otherConn' = IF connRef = "conn" THEN Orphan ELSE otherConn
    /\ connRef' = "conn"
    /\ tracksRef' = [i \in 1..Len(senders) |-> i]
    /\ isSessionStarted' = TRUE
    /\ dcCleanupRef' = TRUE
    /\ last' = Control("handshakeResolved")
    /\ UNCHANGED <<isSessionActive, syncVars, dcState, dcSent, deltasRouted,
                   isListening, audioStreamRef, placeholderTrackRef,
                   placeholderAudioContextRef, mediaVars, turn>>

\* The media objects after stopSession stopped the capture stream and the
\* placeholder track and closed the placeholder's AudioContext.
StopMedia(ts, stream, placeholder, context) ==
    LET t1 == IF stream # Null THEN stop(ts, stream) ELSE ts
        t2 == IF placeholder # Null THEN stop(t1, placeholder) ELSE t1
    IN  IF context # Null THEN close(t2, context) ELSE t2

\* The token of the second invocation arrives once the first invocation has
\* returned: whatever connRef holds, a second placeholder is built and takes
\* the placeholder refs, and createRealtimeWebRtcConnection creates a second
\* peer connection with its own sender and data channel.
OverlapTokenResolved ==
    /\ overlapPc = "token"
    /\ startPc = "idle"
    /\ otherConn = NoConn
    /\ CanCreate(tracks)
    /\ overlapPc' = "handshake"
    /\ otherConn' = [state |-> "handshake", track |-> Fresh(tracks)]
    /\ placeholderTrackRef' = Fresh(tracks)
    /\ placeholderAudioContextRef' = Fresh(tracks)
    /\ tracks' = Collect(createSilentAudioTrack(tracks),
                         {audioStreamRef, Fresh(tracks)} \cup Attached(senders))
    /\ last' = Control("tokenResolved")
    /\ UNCHANGED <<hookVars, syncVars, envVars, isListening, audioStreamRef,
                   tracksRef, senders, recPc, closeArg, stopInFlight, turn>>

\* The SDP exchange of the second invocation is rejected: its catch block
\* runs, and its peer connection never opened.
OverlapHandshakeFailed ==
    /\ overlapPc = "handshake"
    /\ overlapPc' = "idle"
    /\ otherConn' = NoConn
    /\ isSessionStarted' = FALSE
    /\ tracks' = Collect(tracks, {audioStreamRef, placeholderTrackRef,
                                  placeholderAudioContextRef}
                                     \cup Attached(senders))
    /\ last' = Caught("handshakeFailed")
    /\ UNCHANGED <<isSessionActive, connRef, dcCleanupRef, syncVars, envVars,
                   trackVars, senders, recPc, closeArg, stopInFlight, turn>>

\* The handshake of the second invocation completes: connRef and tracksRef
\* are overwritten with the second connection, the listeners move from the
\* channel of the connection connRef held to the new channel, and that
\* connection stays open with nothing referring to it.
OverlapHandshakeResolved ==
    /\ overlapPc = "handshake"
    /\ overlapPc' = "idle"
    /\ otherConn' = IF connRef = "conn" THEN Orphan ELSE NoConn
    /\ connRef' = "conn"
    /\ senders' = <<otherConn.track>>
    /\ tracksRef' = [i \in 1..Len(senders') |-> i]
    /\ isSessionStarted' = TRUE
    /\ dcCleanupRef' = TRUE
    /\ dcState' = "connecting"
    /\ dcSent' = 0
    /\ tracks' = Collect(tracks, {audioStreamRef, placeholderTrackRef,
                                  placeholderAudioContextRef, otherConn.track})
    /\ last' = Control("handshakeResolved")
    /\ UNCHANGED <<isSessionActive, syncVars, startPc, deltasRouted, isListening,
                   audioStreamRef, placeholderTrackRef,
                   placeholderAudioContextRef, recPc, closeArg, stopInFlight,
                   turn>>

\* The synchronizer state the hook is in.
SyncPhase ==
    IF currentMessageIdRef = Null THEN "Idle"
    ELSE IF completionStateRef = NoneDone THEN "Accumulating"
    ELSE "AwaitingJointCompletion"

\* A stopSession that leaves the completion flags as they are.
AbandonTurn_KeepsFlags ==
    /\ currentMessageIdRef' = Null
    /\ UNCHANGED completionStateRef

\* The end of stopSession: the turn id and the completion flags are reset.
AbandonTurn ==
    /\ currentMessageIdRef' = Null
    /\ completionStateRef' = NoneDone

\* stopSession.  last.text is the synchronizer state it was called in.
StopSession ==
    /\ UNCHANGED <<closeArg, overlapPc, otherConn>>
    /\ stopInFlight' = (startPc # "idle" \/ overlapPc # "idle")
    /\ dcCleanupRef' = FALSE
    /\ \E c \in {closeRealtimeWebRtcConnection(HookConn(connRef, dcState), {})} :
        IF c.threw
        THEN /\ last' = [Control("stopSession") EXCEPT !.raised = "close",
                                                        !.escaped = TRUE]
             /\ UNCHANGED <<isSessionStarted, isSessionActive, connRef, syncVars,
                            startPc, dcState, dcSent, deltasRouted, trackVars,
                            mediaVars, turn>>
        ELSE /\ dcState' = IF connRef = "null" THEN dcState ELSE c.conn.dc
             /\ connRef' = "null"
             /\ senders' = IF connRef = "null" THEN senders ELSE <<>>
             /\ tracks' = Collect(StopMedia(tracks, audioStreamRef,
                                            placeholderTrackRef,
                                            placeholderAudioContextRef),
                                  Attached(senders') \cup {otherConn.track})
             /\ audioStreamRef' = Null
             /\ placeholderTrackRef' = Null
             /\ placeholderAudioContextRef' = Null
             /\ isSessionStarted' = FALSE
             /\ isSessionActive' = FALSE
             /\ isListening' = FALSE
             /\ tracksRef' = <<>>
             /\ AbandonTurn
             /\ last' = [Control("stopSession") EXCEPT
                            !.again = (last.op = "stopSession"),
                            !.text = SyncPhase]
             /\ turn' = NoTurn
             /\ UNCHANGED <<messages, uuidCount, startPc, dcSent, deltasRouted,
                            recPc>>

-----------------------------------------------------------------------------
(* Track control *)

\* A track control step that also abandons the open turn.
RecordingFrame_AbandonsTurn ==
    /\ currentMessageIdRef' = Null
    /\ completionStateRef' = NoneDone
    /\ UNCHANGED <<hookVars, messages, uuidCount, envVars, turn>>

\* What startRecording and stopRecording never write: the session state, the
\* synchronizer state and the data channel.
RecordingFrame == UNCHANGED <<hookVars, syncVars, envVars, turn>>

\* startRecording up to its await (getUserMedia); without a connection it
\* throws into its own catch block (setError, onError).
StartRecording ==
    /\ UNCHANGED <<closeArg, overlapPc, otherConn, stopInFlight>>
    /\ recPc = "idle"
    /\ IF connRef = "null"
       THEN /\ last' = Caught("startRecording")
            /\ UNCHANGED recPc
       ELSE /\ recPc' = "media"
            /\ last' = Called("startRecording", <<"getUserMedia">>)
    /\ RecordingFrame
    /\ UNCHANGED <<trackVars, tracks, senders>>

\* getUserMedia resolves with a capture stream.
MediaGranted ==
    /\ UNCHANGED <<closeArg, overlapPc, otherConn, stopInFlight>>
    /\ recPc = "media"
    /\ CanCreate(tracks)
    /\ recPc' = "idle"
    /\ audioStreamRef' = Fresh(tracks)
    /\ IF Len(tracksRef) > 0
       THEN /\ senders' = replaceTrack(senders, tracksRef, Fresh(tracks),
                                       dcState = "closed")
            /\ UNCHANGED tracksRef
       ELSE IF connRef # "null"
       THEN /\ senders' = Append(senders, Fresh(tracks))
            /\ tracksRef' = Append(tracksRef, Len(senders'))
       ELSE UNCHANGED <<senders, tracksRef>>
    /\ tracks' = Collect(getUserMedia(tracks),
                         {audioStreamRef', placeholderTrackRef,
                          placeholderAudioContextRef} \cup Attached(senders'))
    /\ isListening' = TRUE
    /\ last' = Control("mediaGranted")
    /\ RecordingFrame
    /\ UNCHANGED <<placeholderTrackRef, placeholderAudioContextRef>>

\* getUserMedia rejects: the catch block of startRecording.
MediaDenied ==
    /\ UNCHANGED <<closeArg, overlapPc, otherConn, stopInFlight>>
    /\ recPc = "media"
    /\ recPc' = "idle"
    /\ last' = Caught("mediaDenied")
    /\ RecordingFrame
    /\ UNCHANGED <<trackVars, tracks, senders>>

\* A stopRecording that builds a new placeholder track every time.
NeedsPlaceholder_Always == Len(tracksRef) > 0

\* A stopRecording that never builds a placeholder track.
NeedsPlaceholder_Never == FALSE

\* stopRecording builds a new placeholder track: it holds senders, and no
\* placeholder exists or the existing one has ended.
NeedsPlaceholder ==
    /\ Len(tracksRef) > 0
    /\ \/ placeholderTrackRef = Null
       \/ tracks[placeholderTrackRef].readyState = "ended"

\* stopRecording.  last.text tells whether it held a capture stream
\* ("live") or not ("muted").
StopRecording ==
    /\ UNCHANGED <<closeArg, overlapPc, otherConn, stopInFlight>>
    /\ NeedsPlaceholder => CanCreate(tracks)
    /\ isListening' = FALSE
    /\ audioStreamRef' = Null
    /\ LET t1 == IF audioStreamRef # Null THEN stop(tracks, audioStreamRef)
                 ELSE tracks
           t2 == IF NeedsPlaceholder THEN createSilentAudioTrack(t1) ELSE t1
       IN  IF Len(tracksRef) > 0
           THEN /\ placeholderTrackRef' = IF NeedsPlaceholder THEN Fresh(tracks)
                                          ELSE placeholderTrackRef
                /\ placeholderAudioContextRef' =
                       IF NeedsPlaceholder THEN Fresh(tracks)
                       ELSE placeholderAudioContextRef
                /\ senders' = replaceTrack(senders, tracksRef, placeholderTrackRef',
                                           dcState = "closed")
                /\ tracks' = Collect(t2, {placeholderTrackRef',
                                          placeholderAudioContextRef'}
                                         \cup Attached(senders'))
           ELSE /\ tracks' = Collect(t1, {placeholderTrackRef,
                                          placeholderAudioContextRef}
                                         \cup Attached(senders))
                /\ UNCHANGED <<placeholderTrackRef, placeholderAudioContextRef,
                               senders>>
    /\ last' = [Control("stopRecording") EXCEPT
                   !.again = (last.op = "stopRecording"),
                   !.text = IF audioStreamRef # Null THEN "live" ELSE "muted"]
    /\ RecordingFrame
    /\ UNCHANGED <<tracksRef, recPc>>

-----------------------------------------------------------------------------
(* Data channel events *)

\* Mutant: a cleanup that removes nothing, so that a closed channel still has
\* its listeners.
ListenersAttached_Leaked == dcCleanupRef \/ dcState = "closed"

\* The open and message listeners are on the channel: from
\* attachRealtimeDataChannelHandlers until the cleanup it returned, kept in
\* dcCleanupRef, is called.
ListenersAttached == dcCleanupRef

\* The channel's open event: handleOpen -> onOpen, which sends session.update.
DcOpen ==
    /\ UNCHANGED <<closeArg, overlapPc, otherConn, stopInFlight>>
    /\ dcState = "connecting"
    /\ startPc = "idle"
    /\ connRef = "conn"
    /\ dcState' = "open"
    /\ IF ListenersAttached
       THEN /\ isSessionActive' = TRUE
            /\ isListening' = FALSE
            /\ \E r \in {sendClientEvent(connRef, dcState', createSessionUpdate)} :
                  /\ dcSent' = dcSent + Len(r.sent)
                  /\ last' = [Control("dcOpen") EXCEPT
                                 !.event = createSessionUpdate,
                                 !.sent = r.sent, !.calls = r.calls]
       ELSE /\ UNCHANGED <<isSessionActive, isListening, dcSent>>
            /\ last' = Control("dcOpen")
    /\ UNCHANGED <<isSessionStarted, connRef, dcCleanupRef, syncVars, startPc,
                   deltasRouted, audioStreamRef, tracksRef, placeholderTrackRef,
                   placeholderAudioContextRef, mediaVars, turn>>

SyncState ==
    [id |-> currentMessageIdRef, cs |-> completionStateRef,
     msgs |-> messages, uuid |-> uuidCount]

IsRoutedDelta(p) ==
    /\ p.json = "object" /\ p.raises # "onMessage"
    /\ p.type \in {BotDelta, UserDelta} /\ p.text # ""

\* handleMessage run on one payload of P, observed as operation op.
Dispatch(op, P) ==
    /\ UNCHANGED <<closeArg, overlapPc, otherConn, stopInFlight>>
    /\ \E p \in P :
        /\ IsRoutedDelta(p) => deltasRouted < MaxDeltas
        /\ \E r \in {handleMessage(p, SyncState)} :
               /\ currentMessageIdRef' = r.s.id
               /\ completionStateRef' = r.s.cs
               /\ messages' = r.s.msgs
               /\ uuidCount' = r.s.uuid
               /\ deltasRouted' = IF IsRoutedDelta(p) THEN deltasRouted + 1
                                  ELSE deltasRouted
               /\ last' = Last(op, p, r)
               /\ turn' = TurnAfter(turn, SyncState, p, r)
    /\ UNCHANGED <<hookVars, startPc, dcState, dcSent, trackVars, mediaVars>>

\* The channel's message listener run on one payload of P.
Deliver(P) ==
    /\ dcState = "open"
    /\ ListenersAttached
    /\ Dispatch("message", P)

\* The channel's message event: handleMessage.
DcMessage == Deliver(Payloads(messages, deltasRouted))

\* The channel's message event with one well-formed event of each kind, a
\* malformed payload and an unrecognized event.
DcMessageOfEachKind == Deliver(OnePayloadPerKind(deltasRouted))

\* A message event that fires on the channel after stopSession has closed
\* it: it reaches handleMessage only if the listener is still attached.
DcLateMessage ==
    /\ dcState = "closed"
    /\ connRef = "null"
    /\ IF ListenersAttached
       THEN Dispatch("lateMessage", OnePayloadPerKind(deltasRouted))
       ELSE /\ last' = Control("lateMessage")
            /\ UNCHANGED <<hookVars, syncVars, envVars, trackVars, mediaVars,
                           closeArg, overlapPc, otherConn, stopInFlight,
                           turn>>

\* An open event that fires on the channel after stopSession has closed it:
\* it reaches onOpen only if the listener is still attached.
DcLateOpen ==
    /\ dcState = "closed"
    /\ connRef = "null"
    /\ IF ListenersAttached
       THEN /\ isSessionActive' = TRUE
            /\ isListening' = FALSE
            /\ \E r \in {sendClientEvent(connRef, dcState, createSessionUpdate)} :
                  /\ dcSent' = dcSent + Len(r.sent)
                  /\ last' = [Control("lateOpen") EXCEPT
                                 !.event = createSessionUpdate,
                                 !.sent = r.sent, !.calls = r.calls]
       ELSE /\ UNCHANGED <<isSessionActive, isListening, dcSent>>
            /\ last' = Control("lateOpen")
    /\ UNCHANGED <<isSessionStarted, connRef, dcCleanupRef, syncVars, startPc,
                   dcState, deltasRouted, audioStreamRef, tracksRef,
                   placeholderTrackRef, placeholderAudioContextRef, mediaVars,
                   closeArg, overlapPc, otherConn, stopInFlight, turn>>

\* The open turn gets its transcription-completed event.
CompletedInTurn ==
    /\ currentMessageIdRef # Null
    /\ ~completionStateRef.transcriptionDone
    /\ Deliver({Payload("object", UserCompleted, "T", "none", Null, "none")})

\* The open turn gets its response.done event.
DoneInTurn ==
    /\ currentMessageIdRef # Null
    /\ ~completionStateRef.responseDone
    /\ Deliver({Payload("object", ResponseDone, "B", "message", Null, "none")})

\* The channel closes without stopSession: the remote end closes it, or the
\* peer connection fails and closes its channel with it.  No close listener
\* is attached to the channel (part_004 78-79) and none to the peer
\* connection (webrtc.ts 37-54), so no code of the hook runs.
DcClosed ==
    /\ UNCHANGED <<closeArg, overlapPc, otherConn, stopInFlight>>
    /\ connRef = "conn"
    /\ dcState \in {"connecting", "open"}
    /\ dcState' = "closed"
    /\ last' = Control("dcClosed")
    /\ UNCHANGED <<hookVars, syncVars, startPc, dcSent, deltasRouted, trackVars,
                   mediaVars, turn>>

\* closeRealtimeWebRtcConnection(closeArg), called by a caller other than
\* the hook.
CloseConnection ==
    /\ \E took \in SUBSET closeArg.raising :
        \E c \in {closeRealtimeWebRtcConnection(closeArg, took)} :
            /\ closeArg' = c.conn
            /\ last' = [Control("close") EXCEPT
                           !.escaped = c.threw,
                           !.raised = IF c.threw THEN "close" ELSE "none",
                           !.again = (last.op = "close")]
    /\ UNCHANGED <<hookVars, syncVars, envVars, trackVars, mediaVars, overlapPc,
                   otherConn, stopInFlight, turn>>

\* sendClientEvent called with one of ClientEvents.
SendClientEvent ==
    /\ UNCHANGED <<closeArg, overlapPc, otherConn, stopInFlight>>
    /\ dcSent < MaxSent
    /\ \E event \in ClientEvents :
        \E r \in {sendClientEvent(connRef, dcState, event)} :
            /\ dcSent' = dcSent + Len(r.sent)
            /\ last' = [Control("sendClientEvent") EXCEPT
                           !.event = event, !.sent = r.sent, !.calls = r.calls]
    /\ UNCHANGED <<hookVars, syncVars, startPc, dcState, deltasRouted, trackVars,
                   mediaVars, turn>>

-----------------------------------------------------------------------------

(***************************************************************************)
(* Claims                                                                  *)
(***************************************************************************)

BothDone(cs) == cs.responseDone /\ cs.transcriptionDone

OneDone(cs) == cs.responseDone # cs.transcriptionDone

\* The type-specific handler the last message was routed to, "" when none.
RoutedTo ==
    IF last.op = "message" /\ Len(last.calls) >= 2 /\ last.calls[2] # "onParseError"
    THEN last.calls[2] ELSE ""

\* The last message was routed to handler name, which returned normally.
Handled(name) == RoutedTo = name /\ last.raised = "none"

\* C1. Joint gate: the turn id goes from set to null only in stopSession or
\* in a message handler at whose joint check both completion flags were true,
\* and that handler leaves both flags false; a handler that leaves exactly
\* one flag true leaves the id as it was; a handler that makes the second
\* flag true clears the id and resets both flags.
C1_JointGate ==
    [][ /\ (currentMessageIdRef # Null /\ currentMessageIdRef' = Null) =>
              \/ last'.op = "stopSession"
              \/ /\ last'.op = "message"
                 /\ BothDone(last'.gate)
                 /\ completionStateRef' = NoneDone
        /\ (last'.op = "message" /\ currentMessageIdRef # Null
              /\ OneDone(completionStateRef')) =>
              currentMessageIdRef' = currentMessageIdRef
        /\ (last'.op = "message" /\ last'.gate.mutated /\ OneDone(completionStateRef)
              /\ BothDone(last'.gate)) =>
              (currentMessageIdRef' = Null /\ completionStateRef' = NoneDone)
      ]_vars

\* A turn that got both completion events has just been closed by the gate.
C1_Witness ==
    /\ last.op = "message" /\ BothDone(last.gate)
    /\ turn.phase = "gate" /\ turn.U # "" /\ turn.sawDone
    /\ currentMessageIdRef = Null /\ completionStateRef = NoneDone

\* C2. The id of a turn that has a timeline entry is cleared by a message
\* handler only if both a transcription-completed event and a response.done
\* event were handled while that id was the current one.
C2_BothReported ==
    [][ (currentMessageIdRef # Null /\ currentMessageIdRef' = Null
            /\ last'.op = "message" /\ Len(messages') > turn'.base) =>
          (turn'.U # "" /\ turn'.sawDone) ]_vars

\* C3. A completion event handled while no turn is open leaves the
\* completion flags and the turn id unchanged.
C3_StaleCompletionIgnored ==
    [][ (last'.op = "message" /\ currentMessageIdRef = Null
            /\ Len(last'.calls) >= 2
            /\ last'.calls[2] \in {"onUserTranscriptCompleted", "onResponseDone"}) =>
          (completionStateRef' = completionStateRef /\ currentMessageIdRef' = Null) ]_vars

\* C4. Single open turn: a turn id is allocated only by a delta handler run
\* while no id is set, the id is the one allocated last, and the turn
\* allocated before it in the same session, if any, was closed by the joint
\* check with both flags true.
C4_SingleOpenTurn ==
    [][ /\ (currentMessageIdRef' # Null /\ currentMessageIdRef' # currentMessageIdRef) =>
              /\ currentMessageIdRef = Null
              /\ last'.op = "message" /\ Len(last'.calls) >= 2
              /\ last'.calls[2] \in {"onBotTranscriptDelta", "onUserTranscriptDelta"}
              /\ turn.phase \in {"none", "gate"}
              /\ turn'.phase = "open" /\ turn'.prev = turn.phase
              /\ currentMessageIdRef' = uuidCount'
        /\ turn'.phase = "open" => turn'.prev \in {"none", "gate"}
      ]_vars

\* A second turn is open in a session whose first turn the gate closed.
C4_Witness ==
    /\ currentMessageIdRef # Null /\ turn.phase = "open" /\ turn.prev = "gate"
    /\ RoutedTo \in {"onBotTranscriptDelta", "onUserTranscriptDelta"}

\* C5. Delta accumulation is append-only: while a turn is open and only
\* deltas have been handled in it, the turn has one timeline entry, at the
\* head, whose user text is the concatenation of its user deltas in delivery
\* order and whose bot text is that of its bot deltas; a producer without
\* deltas has no text on the entry.
C5_AppendOnly ==
    (/\ currentMessageIdRef # Null /\ turn.phase = "open"
     /\ turn.U = "" /\ ~turn.sawDone
     /\ (turn.ud # "" \/ turn.bd # "")) =>
        /\ Len(messages) = turn.base + 1
        /\ messages[1].id = currentMessageIdRef
        /\ ("user" \in DOMAIN messages[1]) = (turn.ud # "")
        /\ ("bot" \in DOMAIN messages[1]) = (turn.bd # "")
        /\ OrEmpty(messages[1], "user") = turn.ud
        /\ OrEmpty(messages[1], "bot") = turn.bd

\* Two user deltas were appended in delivery order to the open turn.
C5_Witness ==
    /\ currentMessageIdRef # Null /\ turn.U = "" /\ ~turn.sawDone
    /\ Len(turn.ud) = 2 /\ Len(messages) > 0 /\ OrEmpty(messages[1], "user") = turn.ud
    /\ Handled("onUserTranscriptDelta")

\* The timeline entries created since the id of the last turn was allocated.
TurnEntries == 1..(Len(messages) - turn.base)

\* C6. Completion overrides deltas: right after a transcription-completed
\* event with transcript T was handled in an open turn that has a timeline
\* entry, an entry of that turn has user text T, and transcriptionDone is
\* set or the turn has been closed by the gate.
C6_CompletionOverrides ==
    (Handled("onUserTranscriptCompleted") /\ last.gate.mutated
        /\ TurnEntries # {}) =>
        /\ \E i \in TurnEntries :
              "user" \in DOMAIN messages[i] /\ messages[i].user = last.text
        /\ \/ completionStateRef.transcriptionDone
           \/ (currentMessageIdRef = Null /\ turn.phase = "gate")

\* C7. Final turn content does not depend on the order of the two
\* completion events: a turn that got user and bot deltas, then a
\* transcription-completed with transcript U and a response.done whose
\* message output carries transcript B, and was closed by the gate, has
\* exactly one timeline entry, with user text U and bot text B; both flags
\* are false and no turn is open.
C7_OrderIndependent ==
    (/\ last.op = "message" /\ BothDone(last.gate)
     /\ turn.phase = "gate"
     /\ turn.ud # "" /\ turn.bd # "" /\ ~turn.late
     /\ turn.U # "" /\ turn.B # "") =>
        /\ Len(messages) = turn.base + 1
        /\ OrEmpty(messages[1], "user") = turn.U
        /\ OrEmpty(messages[1], "bot") = turn.B
        /\ completionStateRef = NoneDone
        /\ currentMessageIdRef = Null

\* C8. One timeline entry per turn: the timeline never holds more entries
\* than turn ids were allocated, and the turn opened last has at most one
\* entry.
C8_OneEntryPerTurn ==
    /\ Len(messages) <= uuidCount
    /\ turn.phase # "none" => Len(messages) - turn.base <= 1

\* A valid delta event as the router may receive it next.
NextDeltas ==
    {Payload("object", t, DeltaLetters[deltasRouted + 1], "none", Null, "none") :
        t \in {BotDelta, UserDelta}}

\* C9. Malformed event resilience: a payload that is not valid JSON invokes
\* onParseError once and no other handler, leaves the turn id, the
\* completion flags, the timeline and the listener as they were, and a valid
\* delta delivered next is handled as it would have been before.
C9_MalformedResilience ==
    [][ (last'.op = "message" /\ last'.json = "invalid") =>
          /\ last'.calls = <<"onParseError">>
          /\ ~last'.escaped
          /\ UNCHANGED <<currentMessageIdRef, completionStateRef, messages,
                         uuidCount, turn, dcCleanupRef, dcState>>
          /\ \A q \in NextDeltas :
                handleMessage(q, SyncState') = handleMessage(q, SyncState)
      ]_vars

\* A payload that is not JSON has just been handled in an open turn.
C9_Witness ==
    /\ last.op = "message" /\ last.json = "invalid"
    /\ last.calls = <<"onParseError">>
    /\ currentMessageIdRef # Null /\ Len(messages) > 0

\* C10. No error leaves the message listener: whatever the payload and
\* whichever callback raises, the listener returns normally, an error is
\* reported by one final onParseError call, and the listener is still
\* attached to the open channel.
C10_NoEscape ==
    last.op = "message" =>
        /\ ~last.escaped
        /\ last.raised # "none" =>
              /\ last.calls # <<>>
              /\ \A i \in 1..Len(last.calls) :
                    (last.calls[i] = "onParseError") = (i = Len(last.calls))
        /\ last.raised = "none" =>
              \A i \in 1..Len(last.calls) : last.calls[i] # "onParseError"
        /\ dcCleanupRef /\ dcState = "open"

\* A type-specific handler raised and the error was reported.
C10_Witness ==
    /\ last.op = "message" /\ last.raised = "dispatch" /\ RoutedTo # ""
    /\ last.calls[Len(last.calls)] = "onParseError" /\ ~last.escaped

\* C11. Fresh timeline on reopen: when a startSession has just succeeded
\* (its connection and listeners are in place) the timeline is empty; for a
\* start that follows a stopSession this means that no entry of the previous
\* session is left.
C11_FreshTimeline ==
    last.op = "handshakeResolved" => messages = <<>>

\* C12. stopSession abandons the turn: whatever synchronizer state it is
\* called in, it leaves the turn id null and both completion flags false and
\* does not touch the timeline.
C12_StopAbandonsTurn ==
    [][ last'.op = "stopSession" =>
          /\ currentMessageIdRef' = Null
          /\ completionStateRef' = NoneDone
          /\ messages' = messages
      ]_vars

\* stopSession was called while the open turn had one of its two completion
\* events, and its timeline entry is still there.
C12_Witness ==
    /\ last.op = "stopSession" /\ last.text = "AwaitingJointCompletion"
    /\ currentMessageIdRef = Null /\ completionStateRef = NoneDone
    /\ messages # <<>>

\* What stopSession may write, the observation variables aside.
StopWrites ==
    <<isSessionStarted, isSessionActive, isListening, connRef, dcCleanupRef,
      tracksRef, audioStreamRef, placeholderTrackRef, placeholderAudioContextRef,
      currentMessageIdRef, completionStateRef, messages, tracks, senders,
      dcState>>

\* C13. stopSession is idempotent: a stopSession called right after a
\* stopSession, or as the first operation on the hook, raises no error and
\* changes neither the session flags, the connection reference, the senders,
\* the track references, the turn id, the completion flags nor the timeline.
C13_StopIdempotent ==
    [][ (last.op \in {"stopSession", "init"} /\ last'.op = "stopSession") =>
          /\ last'.raised = "none" /\ ~last'.escaped
          /\ UNCHANGED StopWrites
      ]_vars

\* stopSession has just been called a second time in a row.
C13_Witness ==
    /\ last.op = "stopSession" /\ last.again
    /\ last.raised = "none"
    /\ connRef = "null" /\ ~isSessionStarted

\* Everything the hook and the browser hold, the observation variables
\* aside.
ProgramState == <<hookVars, syncVars, envVars, trackVars, mediaVars>>

\* Muted: no capture stream is held and isListening is false.
Muted == ~isListening /\ audioStreamRef = Null

\* The placeholder track exists and has not ended.
ValidPlaceholder ==
    placeholderTrackRef # Null /\ tracks[placeholderTrackRef].readyState = "live"

\* C14. Mute is idempotent and never fails: stopRecording raises no error
\* and leaves isListening false; it replaces the placeholder track only when
\* it holds senders and there is no placeholder or the placeholder has ended;
\* called right after a stopRecording, or when muted (with or without a
\* session) with nothing to rebuild, it changes no state, so the senders keep
\* the same placeholder track.
C14_MuteIdempotent ==
    [][ last'.op = "stopRecording" =>
          /\ last'.raised = "none" /\ ~last'.escaped
          /\ ~isListening'
          /\ placeholderTrackRef' # placeholderTrackRef =>
                (Len(tracksRef) > 0 /\ ~ValidPlaceholder)
          /\ (\/ last.op = "stopRecording"
              \/ Muted /\ (Len(tracksRef) = 0 \/ ValidPlaceholder)) =>
                UNCHANGED ProgramState
      ]_vars

\* stopRecording has just been called a second time in a row in a session
\* whose sender carries the live placeholder track.
C14_Witness ==
    /\ last.op = "stopRecording" /\ last.again /\ last.text = "muted"
    /\ connRef = "conn" /\ Len(senders) = 1
    /\ senders[1] = placeholderTrackRef /\ ValidPlaceholder
    /\ ~isListening

\* The capture streams that are running.
RunningCaptures ==
    {t \in DOMAIN tracks : tracks[t].kind = "mic" /\ tracks[t].readyState = "live"}

\* C15. Unmute is idempotent: at most one microphone capture stream is
\* running in every reachable state, so a startRecording that completes while
\* the microphone is already live leaves no additional running stream.
C15_OneCapture ==
    Cardinality(RunningCaptures) <= 1

\* C16. startSession is idempotent: called when the session is already
\* started it fetches no token (it makes no call at all), opens no
\* connection, attaches no listener and changes no state.
C16_StartIdempotent ==
    [][ (isSessionStarted /\ last'.op = "startSession") =>
          /\ last'.calls = <<>>
          /\ last'.raised = "none"
          /\ UNCHANGED ProgramState
      ]_vars

\* startSession has just returned early in a started session.
C16_Witness ==
    /\ last.op = "startSession" /\ last.calls = <<>>
    /\ isSessionStarted /\ connRef = "conn" /\ startPc = "idle"

\* C17. After stopRecording in a started session every sender carries a
\* track, which is the silent placeholder track and is not the capture track
\* that was live before, and the track of the capture stream held before has
\* been stopped.
C17_MutedAfterStop ==
    [][ (last'.op = "stopRecording" /\ connRef = "conn") =>
          /\ \A i \in 1..Len(senders') :
                /\ senders'[i] # Null
                /\ senders'[i] = placeholderTrackRef'
                /\ tracks'[senders'[i]].kind = "silent"
                /\ senders'[i] # audioStreamRef
          /\ Len(senders') = Len(senders) /\ Len(senders') >= 1
          /\ audioStreamRef # Null =>
                \/ audioStreamRef \notin DOMAIN tracks'
                \/ tracks'[audioStreamRef].readyState = "ended"
      ]_vars

\* stopRecording has just muted a session whose microphone was live.
C17_Witness ==
    /\ last.op = "stopRecording" /\ last.text = "live"
    /\ connRef = "conn" /\ Len(senders) = 1
    /\ senders[1] = placeholderTrackRef
    /\ RunningCaptures = {}

\* C18. After startRecording completes successfully in a started session
\* every sender carries the audio track of the capture stream just granted,
\* and isListening is true.
C18_LiveAfterStart ==
    [][ (last'.op = "mediaGranted" /\ connRef = "conn") =>
          /\ audioStreamRef' \notin DOMAIN tracks
          /\ tracks'[audioStreamRef'] = MicTrack
          /\ Len(senders') >= 1
          /\ \A i \in 1..Len(senders') : senders'[i] = audioStreamRef'
          /\ isListening'
      ]_vars

\* startRecording has just completed in a started session.
C18_Witness ==
    /\ last.op = "mediaGranted" /\ connRef = "conn" /\ isListening
    /\ Len(senders) = 1 /\ senders[1] = audioStreamRef
    /\ tracks[audioStreamRef].readyState = "live"

\* Every sender of the peer connection (open, or being opened by a suspended
\* startSession) carries exactly one track, which has not been stopped and
\* is the current microphone track or the current placeholder track.
TrackInvariant ==
    (connRef = "conn" \/ startPc = "handshake") =>
        /\ Len(senders) >= 1
        /\ \A i \in 1..Len(senders) :
              /\ senders[i] # Null
              /\ senders[i] \in DOMAIN tracks
              /\ tracks[senders[i]].readyState = "live"
              /\ senders[i] \in {audioStreamRef, placeholderTrackRef}

TrackControlOps == {"startRecording", "mediaGranted", "mediaDenied", "stopRecording"}

\* C20. Track state and turn state are independent: handling an inbound
\* payload of any kind leaves the senders and their tracks, the capture
\* stream and the placeholder track as they were; startRecording and
\* stopRecording leave the turn id, the completion flags and the timeline as
\* they were; and the track attached to a sender changes only in a step of
\* startSession, stopSession, startRecording or stopRecording.
C20_Independent ==
    [][ /\ last'.op = "message" =>
              UNCHANGED <<senders, tracks, tracksRef, audioStreamRef,
                          placeholderTrackRef, placeholderAudioContextRef>>
        /\ last'.op \in TrackControlOps =>
              UNCHANGED <<currentMessageIdRef, completionStateRef, messages>>
        /\ senders' # senders =>
              last'.op \in {"tokenResolved", "stopSession", "mediaGranted",
                            "stopRecording"}
      ]_vars

\* The microphone has just been muted while a turn was waiting for its
\* second completion event, and the turn is still waiting.
C20_Witness ==
    /\ last.op = "stopRecording" /\ last.text = "live"
    /\ SyncPhase = "AwaitingJointCompletion"
    /\ messages # <<>>
    /\ connRef = "conn" /\ senders[1] = placeholderTrackRef

\* C21. A capture failure only fails the live-audio toggle: when
\* getUserMedia rejects, startRecording reports the error through the error
\* state and onError, raises nothing, and leaves the connection, the senders
\* and their tracks, isListening, the session flags, the turn id, the
\* completion flags and the timeline as they were.
C21_CaptureFailure ==
    [][ last'.op = "mediaDenied" =>
          /\ last'.calls = <<"setError", "onError">>
          /\ ~last'.escaped
          /\ UNCHANGED <<connRef, dcCleanupRef, dcState, senders, tracks, tracksRef,
                         audioStreamRef, placeholderTrackRef, isListening,
                         isSessionStarted, isSessionActive, currentMessageIdRef,
                         completionStateRef, messages>>
      ]_vars

\* The microphone has just been refused in an active, muted session, which
\* is still active and muted.
C21_Witness ==
    /\ last.op = "mediaDenied" /\ last.calls = <<"setError", "onError">>
    /\ connRef = "conn" /\ isSessionStarted /\ isSessionActive
    /\ Muted /\ senders = <<placeholderTrackRef>> /\ ValidPlaceholder

\* The type-specific handler slots of the router.
TypeHandlers ==
    {"onBotTranscriptDelta", "onUserTranscriptDelta", "onUserTranscriptCompleted",
     "onResponseDone"}

\* The event types the router recognizes.
RecognizedTypes == {BotDelta, UserDelta, UserCompleted, ResponseDone}

\* C26. For every payload that parses, onMessage is invoked exactly once,
\* before anything else; at most one type-specific handler is invoked, after
\* it; and an event of unrecognized type reaches no type-specific handler
\* and leaves the turn id, the completion flags and the timeline as they
\* were.
C26_GenericObserver ==
    [][ (last'.op = "message" /\ last'.json # "invalid") =>
          /\ Len(last'.calls) >= 1 /\ last'.calls[1] = "onMessage"
          /\ \A i \in 2..Len(last'.calls) : last'.calls[i] # "onMessage"
          /\ Cardinality({i \in 1..Len(last'.calls) :
                            last'.calls[i] \in TypeHandlers}) <= 1
          /\ (last'.json = "object" /\ last'.type \notin RecognizedTypes) =>
                /\ \A i \in 1..Len(last'.calls) : last'.calls[i] \notin TypeHandlers
                /\ UNCHANGED <<currentMessageIdRef, completionStateRef, messages>>
      ]_vars

\* An event of unrecognized type has just been forwarded to onMessage alone
\* while a turn was open.
C26_Witness ==
    /\ last.op = "message" /\ last.json = "object" /\ last.type = OtherType
    /\ last.calls = <<"onMessage">> /\ last.raised = "none"
    /\ currentMessageIdRef # Null /\ messages # <<>>

\* The delta handlers and the timeline field each of them writes.
DeltaHandlers == {"onBotTranscriptDelta", "onUserTranscriptDelta"}

FieldOf(handler) == IF handler = "onBotTranscriptDelta" THEN "bot" ELSE "user"

\* C28. A delta of either producer handled (its handler returning normally)
\* while no turn is open allocates a turn id that no timeline entry carries,
\* and inserts exactly one entry, which has that id, the delta as the text
\* of that producer and no text of the other producer; the entries that
\* were there are unchanged.
C28_DeltaOpensTurn ==
    [][ (/\ last'.op = "message" /\ last'.raised = "none"
         /\ currentMessageIdRef = Null
         /\ Len(last'.calls) = 2 /\ last'.calls[2] \in DeltaHandlers) =>
          /\ currentMessageIdRef' # Null
          /\ \A i \in 1..Len(messages) : messages[i].id # currentMessageIdRef'
          /\ Len(messages') = Len(messages) + 1
          /\ DOMAIN messages'[1] = {"id", FieldOf(last'.calls[2])}
          /\ messages'[1].id = currentMessageIdRef'
          /\ messages'[1][FieldOf(last'.calls[2])] = last'.text
          /\ last'.text # ""
          /\ \A i \in 1..Len(messages) : messages'[i + 1] = messages[i]
      ]_vars

\* A user delta has just opened the second turn of the timeline.
C28_Witness ==
    /\ last.op = "message" /\ Handled("onUserTranscriptDelta")
    /\ turn.phase = "open" /\ turn.ud = last.text /\ turn.bd = ""
    /\ Len(messages) = 2 /\ turn.base = 1
    /\ messages[1] = [id |-> currentMessageIdRef, user |-> last.text]
    /\ messages[2].id # currentMessageIdRef

\* C30. Between handlers (every reachable state is the state after a whole
\* handler) the response-done flag and the transcription-done flag are never
\* both true.
C30_NeverBothDone == ~BothDone(completionStateRef)

\* A response.done handler has just found the transcription flag set, made
\* the second flag true and reset both before returning.
C30_Witness ==
    /\ last.op = "message" /\ Handled("onResponseDone")
    /\ last.gate.mutated /\ BothDone(last.gate)
    /\ completionStateRef = NoneDone

\* A response.done event is handled, its handler returning normally, while
\* a turn is open that has a timeline entry.
DoneInOpenTurn ==
    /\ last'.op = "message" /\ last'.raised = "none"
    /\ Len(last'.calls) = 2 /\ last'.calls[2] = "onResponseDone"
    /\ currentMessageIdRef # Null /\ TurnEntries # {}

\* What C29 says of such a step: responseDone is set; a final transcript B
\* of a message output becomes the bot text of the open turn's entry, whose
\* id becomes the remote output id when there is one; without a final
\* transcript the timeline stays as it was.
DoneApplied ==
    /\ last'.gate.mutated /\ last'.gate.responseDone
    /\ IF last'.text # ""
       THEN /\ Len(messages') = Len(messages)
            /\ \E i \in TurnEntries :
                  /\ "bot" \in DOMAIN messages'[i] /\ messages'[i].bot = last'.text
                  /\ last'.outId # Null => messages'[i].id = last'.outId
                  /\ \A j \in 1..Len(messages) : j # i => messages'[j] = messages[j]
       ELSE messages' = messages

\* C29. Turn-done transition: a response.done event handled while a turn is
\* open whose output is a message with final transcript B sets the bot text
\* of the turn's entry to B and its id to the remote output id when there is
\* one, and sets responseDone; with no output, a function call or no
\* transcript the timeline is unchanged and responseDone is still set.
C29_TurnDone == [][DoneInOpenTurn => DoneApplied]_vars

\* What the code does guarantee: the same, for a turn whose entry still
\* carries the id held in currentMessageIdRef.
C29_TurnDoneWhileFound ==
    [][ (DoneInOpenTurn /\ findIndex(messages, currentMessageIdRef) # 0)
          => DoneApplied ]_vars

\* A response.done with a remote output id has just renamed the entry of
\* the open turn and replaced its bot deltas.
C29_Witness ==
    /\ last.op = "message" /\ Handled("onResponseDone")
    /\ last.outId # Null /\ currentMessageIdRef # Null
    /\ turn.phase = "open" /\ turn.bd # "" /\ turn.B = last.text
    /\ messages[1].id = last.outId /\ messages[1].bot = last.text
    /\ completionStateRef.responseDone

\* C23. An unexpected close of the transport forces a stopped state: when
\* the channel or the connection closes without stopSession, the error is
\* reported through onError and isSessionStarted and isSessionActive become
\* false.
C23_CloseStops ==
    [][ last'.op = "dcClosed" =>
          /\ \E i \in 1..Len(last'.calls) : last'.calls[i] = "onError"
          /\ ~isSessionStarted' /\ ~isSessionActive'
      ]_vars

\* C24. Send is best-effort: sendClientEvent called with no connection or
\* with a channel that is not open transmits nothing, raises nothing and
\* changes no session or synchronizer state; called with the channel open
\* it transmits exactly one frame, the serialized event.
C24_BestEffortSend ==
    [][ last'.op = "sendClientEvent" =>
          /\ ~last'.escaped /\ last'.raised = "none"
          /\ UNCHANGED <<hookVars, syncVars, trackVars, mediaVars, dcState,
                         startPc, turn>>
          /\ IF connRef = "conn" /\ dcState = "open"
             THEN /\ Len(last'.sent) = 1 /\ dcSent' = dcSent + 1
                  /\ Get(last'.sent[1], "type") = Get(last'.event, "type")
                  /\ \A i \in 1..Len(last'.sent[1]) :
                        last'.sent[1][i][2] # Undefined
             ELSE last'.sent = <<>> /\ dcSent' = dcSent
      ]_vars

\* A send went out on the open channel of an active session with a turn
\* open.
C24_Transmitted ==
    /\ last.op = "sendClientEvent" /\ Len(last.sent) = 1
    /\ connRef = "conn" /\ dcState = "open" /\ dcSent = 2
    /\ isSessionActive /\ currentMessageIdRef # Null

\* A send was dropped: the channel of the connection held is closed.
C24_Witness ==
    /\ last.op = "sendClientEvent" /\ last.sent = <<>>
    /\ connRef = "conn" /\ dcState = "closed" /\ last.event # <<>>

\* C25. Every frame transmitted carries an event_id: the one the caller
\* supplied, unchanged, or else one assigned before serialization.
C25_EventId ==
    \A i \in 1..Len(last.sent) :
        /\ ~Falsy(Get(last.sent[i], "event_id"))
        /\ ~Falsy(Get(last.event, "event_id")) =>
              Get(last.sent[i], "event_id") = Get(last.event, "event_id")

\* A frame went out with an id assigned in place of the caller's empty one.
C25_Witness ==
    /\ last.op = "sendClientEvent" /\ Len(last.sent) = 1
    /\ Get(last.event, "event_id") = ""
    /\ Get(last.sent[1], "event_id") = EventUuid

\* A frame went out with the caller's id.
C25_Supplied ==
    /\ last.op = "sendClientEvent" /\ Len(last.sent) = 1
    /\ Get(last.event, "event_id") = "evt_1"
    /\ Get(last.sent[1], "event_id") = "evt_1"

\* The members of a connection that are there.
Present(conn) == {m \in {"dc", "pc"} : conn[m] # "absent"}

\* C27 as stated.  Closing is idempotent and total: called with null,
\* repeatedly, or on a connection whose channel or peer connection raises on
\* close, closeRealtimeWebRtcConnection never raises; after a call on a
\* non-null connection its data channel is closed, its peer connection is
\* closed and its audio sink is detached; a repeated call changes nothing.
C27_AsStated ==
    [][ last'.op = "close" =>
          /\ ~last'.escaped
          /\ ~closeArg.isNull =>
                /\ \A m \in Present(closeArg) : closeArg'[m] = "closed"
                /\ closeArg.audioEl # "absent" => closeArg'.audioEl = "detached"
          /\ last.op = "close" => closeArg' = closeArg
      ]_vars

\* C27. Closing is total, and idempotent on members that do not raise:
\* closeRealtimeWebRtcConnection never raises, whether called with null,
\* repeatedly, on a partially built connection or on one whose channel or
\* peer connection raises on close; null is left alone; after a call on a
\* non-null connection every member whose close() does not raise is closed,
\* whatever the other members did, and the audio sink is detached; a
\* repeated call on a connection none of whose members raises changes
\* nothing.
C27_CloseTotal ==
    [][ last'.op = "close" =>
          /\ ~last'.escaped
          /\ closeArg.isNull => closeArg' = closeArg
          /\ ~closeArg.isNull =>
                /\ \A m \in Present(closeArg) \ closeArg.raising :
                      closeArg'[m] = "closed"
                /\ \A m \in Present(closeArg) \cap closeArg.raising :
                      closeArg'[m] \in {closeArg[m], "closed"}
                /\ closeArg.audioEl # "absent" => closeArg'.audioEl = "detached"
                /\ closeArg'.raising = closeArg.raising
          /\ (last.op = "close" /\ closeArg.raising = {}) => closeArg' = closeArg
      ]_vars

\* A second close has run on a connection whose channel raised on close and
\* stayed open: the peer connection is closed and the sink detached all the
\* same, and nothing was raised.
C27_Witness ==
    /\ last.op = "close" /\ last.again /\ ~last.escaped
    /\ ~closeArg.isNull /\ closeArg.raising = {"dc"}
    /\ closeArg.dc = "open" /\ closeArg.pc = "closed"
    /\ closeArg.audioEl = "detached"

\* C22. A failed start forces a stopped state: when the token request of a
\* startSession fails or yields an empty token, or its handshake is
\* rejected, the error is reported through onError, isSessionStarted and
\* isSessionActive are false afterwards, no connection reference and no
\* channel listener is retained, nothing else is called (no reconnect), and
\* in the token case no transport has been opened.
C22_FailedStartStops ==
    [][ last'.op \in {"tokenFailed", "handshakeFailed"} =>
          /\ last'.calls = <<"setError", "onError">>
          /\ ~isSessionStarted' /\ ~isSessionActive'
          /\ connRef' = "null" /\ ~dcCleanupRef'
          /\ last'.op = "tokenFailed" => UNCHANGED <<dcState, senders, tracks>>
      ]_vars

\* What the code does guarantee: the same, for a start that fails while no
\* connection is held.
C22_FailedStartWithoutConn ==
    [][ (last'.op \in {"tokenFailed", "handshakeFailed"} /\ connRef = "null") =>
          /\ last'.calls = <<"setError", "onError">>
          /\ ~isSessionStarted' /\ ~isSessionActive'
          /\ connRef' = "null" /\ ~dcCleanupRef'
          /\ last'.op = "tokenFailed" => UNCHANGED <<dcState, senders, tracks>>
      ]_vars

\* C39. Events without text are not routed: a delta event whose delta is
\* empty or missing, and a transcription-completed event whose transcript is
\* empty or missing, invoke onMessage and no type-specific handler; they
\* allocate no turn id, create no timeline entry and set no completion flag.
C39_NoTextNotRouted ==
    [][ (/\ last'.op = "message" /\ last'.json = "object"
         /\ last'.type \in {BotDelta, UserDelta, UserCompleted}
         /\ last'.raw = "") =>
          /\ last'.calls = <<"onMessage">>
          /\ UNCHANGED <<currentMessageIdRef, completionStateRef, messages,
                         uuidCount>>
      ]_vars

\* A transcription-completed event without a transcript has been received
\* in an open turn whose response is done: the turn is still open.
C39_Witness ==
    /\ last.op = "message" /\ last.type = UserCompleted /\ last.raw = ""
    /\ last.calls = <<"onMessage">>
    /\ currentMessageIdRef # Null /\ completionStateRef.responseDone
    /\ ~completionStateRef.transcriptionDone

\* The open event of the channel configures the session: isSessionActive
\* becomes true and one session.update frame with an assigned event_id goes
\* out; and no step sends a frame on a channel that is not open.
ConfiguredOnOpen ==
    /\ (last'.op = "dcOpen" /\ dcCleanupRef) =>
          /\ isSessionActive'
          /\ Len(last'.sent) = 1 /\ dcSent' = dcSent + 1
          /\ Get(last'.sent[1], "type") = "session.update"
          /\ Get(last'.sent[1], "event_id") = EventUuid
    /\ last'.sent # <<>> => dcState' = "open"
    /\ (dcState' # "open" /\ dcState' = dcState) => dcSent' = dcSent

\* C38. Session configuration on ready: when the channel of a started
\* session opens, isSessionActive becomes true and exactly one session.update
\* event with an assigned event_id is sent on it; nothing is sent before the
\* channel is open; isSessionActive is never true while isSessionStarted is
\* false.
C38_ConfiguredOnReady ==
    [][ConfiguredOnOpen /\ (isSessionActive' => isSessionStarted')]_vars

\* What the code does guarantee: the first three parts.
C38_ConfiguredOnOpenOnly == [][ConfiguredOnOpen]_vars

\* The number of timeline entries that belong to turns that are over: all
\* of them when no turn is open, else those that were there when the open
\* turn got its id.
SettledEntries == IF currentMessageIdRef = Null THEN Len(messages) ELSE turn.base

\* C31. No misattribution to a closed turn: the entries of turns that are
\* over (closed by the joint gate, or abandoned) are not modified by any
\* later delta, transcription-completed or response.done event; a delta
\* that arrives with no turn open goes to an entry created for it.
C31_ClosedTurnFrozen ==
    [][ last'.op = "message" =>
          /\ Len(messages') >= Len(messages)
          /\ \A i \in 1..SettledEntries :
                messages'[Len(messages') - i + 1] = messages[Len(messages) - i + 1]
          /\ (currentMessageIdRef = Null /\ messages' # messages) =>
                /\ Len(messages') = Len(messages) + 1
                /\ messages'[1].id = currentMessageIdRef'
      ]_vars

\* A delta has just opened a turn after the turn before it was closed by
\* the joint gate: the closed turn's entry, with both final texts, sits
\* below the new one.
C31_Witness ==
    /\ last.op = "message" /\ RoutedTo \in DeltaHandlers /\ last.raised = "none"
    /\ turn.phase = "open" /\ turn.prev = "gate" /\ turn.base = 1
    /\ Len(messages) = 2
    /\ OrEmpty(messages[2], "user") = "T" /\ OrEmpty(messages[2], "bot") = "B"

\* msgs2 is msgs with one new entry put at the head.
InsertedAtHead(msgs, msgs2) ==
    /\ Len(msgs2) = Len(msgs) + 1
    /\ \A i \in 1..Len(msgs) : msgs2[i + 1] = msgs[i]

\* msgs2 is msgs with exactly one entry changed where it stands.
UpdatedInPlace(msgs, msgs2) ==
    /\ Len(msgs2) = Len(msgs)
    /\ Cardinality({i \in 1..Len(msgs) : msgs2[i] # msgs[i]}) = 1

\* Newest first.  Local ids (positive) are drawn in increasing order and
\* remote ids (negative) in decreasing order, so an entry nearer the head
\* has the larger local id or the smaller remote id.
NewestFirst(msgs) ==
    \A i, j \in 1..Len(msgs) :
        i < j =>
            /\ (msgs[i].id > Null /\ msgs[j].id > Null) => msgs[i].id > msgs[j].id
            /\ (msgs[i].id < Null /\ msgs[j].id < Null) => msgs[i].id < msgs[j].id

\* C32. The timeline is an ordered append/update structure: every change
\* to it inserts exactly one entry at the head or updates exactly one entry
\* in place; no entry is removed or moved, so the entries stand newest
\* first.
C32_AppendOrUpdate ==
    [][ /\ messages' # messages =>
              /\ last'.op = "message"
              /\ \/ InsertedAtHead(messages, messages')
                 \/ UpdatedInPlace(messages, messages')
        /\ NewestFirst(messages')
      ]_vars

\* A transcription-completed event has just replaced the user deltas of the
\* second turn's entry, in place, above the first turn's entry.
C32_Witness ==
    /\ last.op = "message" /\ Handled("onUserTranscriptCompleted")
    /\ Len(messages) = 2 /\ turn.base = 1 /\ turn.ud # ""
    /\ OrEmpty(messages[1], "user") = last.text
    /\ messages[1].id > messages[2].id /\ messages[2].id > Null

\* The placeholder audio contexts that are open, and the placeholder tracks
\* that are running, each named by its track.
OpenContexts == {t \in DOMAIN tracks : tracks[t].ctx = "running"}

RunningPlaceholders ==
    {t \in DOMAIN tracks : tracks[t].kind = "silent" /\ tracks[t].readyState = "live"}

\* No session: none started, none being started.
SessionStopped == ~isSessionStarted /\ connRef = "null" /\ startPc = "idle"

\* C40. Placeholder resources are bounded: in every reachable state at most
\* one placeholder audio context is open, and while the session is stopped
\* none is open and no placeholder track is running.
C40_PlaceholderBounded ==
    /\ Cardinality(OpenContexts) <= 1
    /\ SessionStopped => (OpenContexts = {} /\ RunningPlaceholders = {})

\* What the code does guarantee: right after stopSession the placeholder
\* the hook refers to is stopped and its context closed.
C40_StopReleasesHeld ==
    [][ last'.op = "stopSession" =>
          /\ placeholderTrackRef' = Null /\ placeholderAudioContextRef' = Null
          /\ (placeholderTrackRef # Null /\ placeholderTrackRef \in DOMAIN tracks') =>
                tracks'[placeholderTrackRef].readyState = "ended"
          /\ (placeholderAudioContextRef # Null
                /\ placeholderAudioContextRef \in DOMAIN tracks') =>
                tracks'[placeholderAudioContextRef].ctx # "running"
      ]_vars

\* The senders that carry a live microphone track.
LiveMicSenders ==
    {i \in 1..Len(senders) :
        /\ senders[i] \in DOMAIN tracks
        /\ tracks[senders[i]].kind = "mic"
        /\ tracks[senders[i]].readyState = "live"}

\* C36. The reported listening state matches what the remote party hears:
\* isListening is true exactly when a connection is held and its senders
\* carry a live microphone track; whenever isListening is false no sender
\* carries a live microphone track and no capture stream is running.
C36_ListeningMatches ==
    /\ isListening <=> (connRef = "conn" /\ LiveMicSenders # {})
    /\ ~isListening => (LiveMicSenders = {} /\ RunningCaptures = {})

\* The part that concerns mute alone: right after stopRecording or
\* stopSession isListening is false, no sender carries a live microphone
\* track and the capture stream the hook held is stopped.
C36_MutedAfterMute ==
    [][ last'.op \in {"stopRecording", "stopSession"} =>
          /\ ~isListening' /\ LiveMicSenders' = {}
          /\ (audioStreamRef # Null /\ audioStreamRef \in DOMAIN tracks') =>
                tracks'[audioStreamRef].readyState = "ended"
      ]_vars

\* C37. After stopSession no message or open event of the closed channel
\* is dispatched: such an event reaches no handler and changes neither the
\* timeline, the turn id, the completion flags nor the session flags.
C37_LateEventsDropped ==
    [][ last'.op \in {"lateMessage", "lateOpen"} =>
          /\ last'.calls = <<>> /\ last'.sent = <<>>
          /\ UNCHANGED <<messages, currentMessageIdRef, completionStateRef,
                         isSessionStarted, isSessionActive, isListening>>
      ]_vars

\* A message has fired on the channel of a session that stopSession ended
\* in the middle of a turn: the timeline keeps the turn's entry, no turn is
\* open and the session is stopped.
C37_Witness ==
    /\ last.op = "lateMessage"
    /\ ~isSessionStarted /\ ~isSessionActive /\ connRef = "null"
    /\ Len(messages) >= 1 /\ currentMessageIdRef = Null
    /\ completionStateRef = NoneDone

\* Every open turn is eventually over, with both flags false.
C33_EventuallyClosed ==
    (currentMessageIdRef # Null) ~>
        (currentMessageIdRef = Null /\ completionStateRef = NoneDone)

\* An open turn ends in stopSession or in a handler that has seen both of
\* its completion events; nothing else, no timeout, ends it.
OnlyBothOrStop ==
    [][ (currentMessageIdRef # Null /\ currentMessageIdRef' = Null) =>
          \/ last'.op = "stopSession"
          \/ last'.op = "message" /\ turn'.U # "" /\ turn'.sawDone
      ]_vars

\* C33. Return to Idle: when every turn that opens gets both a
\* transcription-completed and a response.done event while the session stays
\* open, every open turn is eventually closed (turn id null, both flags
\* false); and a turn that does not get one of the two stays open until
\* stopSession.
C33_ReturnToIdle == C33_EventuallyClosed /\ OnlyBothOrStop

\* C35. Stop wins over an in-flight start: after a stopSession called while
\* a startSession was suspended at the token request or at the handshake,
\* and until startSession is called again, there is no connection, no
\* listener is attached and isSessionStarted is false, also after the
\* suspended start has resumed.
C35_StopWins ==
    stopInFlight => (connRef = "null" /\ ~ListenersAttached /\ ~isSessionStarted)

\* What the code does guarantee: that state right after stopSession, and for
\* as long as the suspended start has not got past its handshake.
C35_StoppedUntilResumed ==
    (stopInFlight /\ (last.op = "stopSession" \/ startPc # "idle")) =>
        (connRef = "null" /\ ~ListenersAttached /\ ~isSessionStarted)

\* C34. At most one transport connection exists at any time, also when
\* startSession is invoked again while an earlier invocation is suspended:
\* the second invocation creates no second connection, and no open
\* connection is left without a reference through which stopSession can
\* close it.
C34_OneConnection ==
    /\ otherConn.state # "orphan"
    /\ ~(connRef = "conn" /\ otherConn.state = "handshake")

\* The second half of C34 on its own: no open connection is left without a
\* reference.
C34_NoOrphan == otherConn.state # "orphan"

\* What the code does guarantee: a single invocation of startSession at a
\* time never has a second connection.
C34_OneAtATime ==
    [][(overlapPc = "idle" /\ otherConn = NoConn /\ last'.op # "startSession"
        /\ isSessionStarted = (connRef = "conn"))
          => otherConn' = NoConn]_vars

-----------------------------------------------------------------------------

\* Sessions in which the handshake is never rejected and the microphone is
\* never switched on, with every inbound payload.
Next ==
    \/ StartSession
    \/ TokenFailed
    \/ TokenResolved
    \/ HandshakeResolved
    \/ StopSession
    \/ DcOpen
    \/ DcMessage

Spec == Init /\ [][Next]_vars

\* Sessions with one inbound payload of each kind, in which the remote end
\* sends every open turn both of its completion events for as long as the
\* session stays open.
LiveNext ==
    \/ StartSession
    \/ TokenFailed
    \/ TokenResolved
    \/ HandshakeResolved
    \/ StopSession
    \/ DcOpen
    \/ DcMessageOfEachKind

LiveSpec ==
    Init /\ [][LiveNext]_vars /\ WF_vars(CompletedInTurn) /\ WF_vars(DoneInTurn)

\* Sessions with track control, with one inbound payload of each kind.
TrackNext ==
    \/ StartSession
    \/ TokenFailed
    \/ TokenResolved
    \/ HandshakeFailed
    \/ HandshakeResolved
    \/ StopSession
    \/ StartRecording
    \/ MediaGranted
    \/ MediaDenied
    \/ StopRecording
    \/ DcOpen
    \/ DcMessageOfEachKind

TrackSpec == Init /\ [][TrackNext]_vars

\* Sessions whose channel can close on its own and on which a caller sends
\* events, with one inbound payload of each kind.
WireNext ==
    \/ StartSession
    \/ TokenFailed
    \/ TokenResolved
    \/ HandshakeResolved
    \/ StopSession
    \/ DcOpen
    \/ DcClosed
    \/ DcLateMessage
    \/ DcLateOpen
    \/ SendClientEvent
    \/ DcMessageOfEachKind

WireSpec == Init /\ [][WireNext]_vars

\* closeRealtimeWebRtcConnection on its own, applied again and again to a
\* connection object of any kind.
CloseNext == CloseConnection

\* Sessions in which startSession is called a second time while the first
\* call is suspended and the second call fails to get its token, with one
\* inbound payload of each kind.
OverlapNext ==
    \/ StartSession
    \/ StartSessionAgain
    \/ TokenFailed
    \/ OverlapTokenFailed
    \/ TokenResolved
    \/ HandshakeFailed
    \/ HandshakeResolved
    \/ StopSession
    \/ DcOpen
    \/ DcMessageOfEachKind

OverlapSpec == Init /\ [][OverlapNext]_vars

\* Sessions in which startSession is called a second time while the first
\* call is suspended and the second call runs to its end, with one inbound
\* payload of each kind.
RaceNext ==
    \/ StartSession
    \/ StartSessionAgain
    \/ TokenFailed
    \/ OverlapTokenFailed
    \/ TokenResolved
    \/ OverlapTokenResolved
    \/ HandshakeFailed
    \/ OverlapHandshakeFailed
    \/ HandshakeResolved
    \/ OverlapHandshakeResolved
    \/ StopSession
    \/ DcOpen
    \/ DcMessageOfEachKind

RaceSpec == Init /\ [][RaceNext]_vars

CloseSpec == CloseInit /\ [][CloseNext]_vars

====
